---------------------------- MODULE Spec2Model ----------------------------
(***************************************************************************)
(* A model of the discovery-and-publish pipeline of githubuploaderbuildout *)
(* (scanner.py, upload_to_github.py, readme_generator.py, github_api.py).  *)
(*                                                                         *)
(* Four specifications share the module:                                   *)
(*   SpecScan    scan_directory and its recursive helper _scan             *)
(*   SpecRun     main(): confirmation, authentication, per-project publish *)
(*   SpecReadme  ensure_readme applied repeatedly to one project directory *)
(*   SpecSan     sanitize_repo_name applied to bounded strings             *)
(***************************************************************************)
EXTENDS Integers, Sequences, FiniteSets, TLC

(***************************************************************************)
(* Bounds of the model.                                                    *)
(***************************************************************************)
\* Number of directories of the scanned tree (directory 1 is the scan root).
NDirs == 3
\* Longest string handed to sanitize_repo_name.
MaxNameLen == 4
\* Longest initial README, in tokens.
MaxReadmeLen == 3
\* Number of successive calls of ensure_readme on one directory.
MaxStamps == 3
\* Largest number of projects a scan hands to main().
MaxProjects == 2
\* Number of successive runs of main() on the same directories and host.
MaxRuns == 3
\* Largest number of marker files in a directory that is classified.
MaxFiles == 2
\* Longest pyproject.toml of a directory that is classified, in lines.
MaxPyLines == 2
\* Longest README of a directory that is classified, in lines.
MaxLines == 7

VARIABLES
    \* ---- the file system handed to scan_directory, and its arguments ----
    dirParent,          \* dirParent[d]: the directory that really contains d (0 for the root)
    dirKind,            \* dirKind[d]: what d holds and how it is named (see Kinds)
    symlink,            \* the tree's symbolic link to a directory, or NoLink
    dirEntries,         \* dirEntries[d]: the sub-directory entries of d, in iterdir() order
    rootState,          \* whether root_path is a directory, a file, or missing
    max_depth,          \* argument max_depth
    claude_only,        \* argument claude_only
    \* ---- scan_directory's locals ----
    scanPc,             \* "start", "scanning", "done"
    stack,              \* the activation records of _scan, innermost last
    projects,           \* the list scan_directory returns
    seen_paths,         \* resolved paths already recorded
    dirs_scanned,
    dirs_skipped,
    permission_errors,
    \* ---- observation of the scan (not program state) ----
    listed,             \* traversal paths on which iterdir() was called
    rootsFound,         \* traversal paths at which markers_found was non-empty, in order
    \* ---- sanitize_repo_name: its argument and its results ----
    sanInput,           \* the string given
    sanOutput,          \* sanitize_repo_name(sanInput), once computed
    sanAgain,           \* sanitize_repo_name(sanOutput), once computed
    sanPc,              \* "start", "once", "twice"
    \* ---- ensure_readme: one project directory and the arguments ----
    readme,             \* content of README.md, or NoFile
    rdName,             \* argument project_name
    rdType,             \* argument project_type
    rdDescription,      \* argument description
    rdInitial,          \* README.md before the first call (observation)
    rdHistory,          \* README.md after each call, in order (observation)
    \* ---- main(): arguments and environment ----
    dry_run,            \* --dry-run
    yes,                \* --yes
    tokenState,         \* the credential: "missing", "rejected" or "ok"
    pathState,          \* what --path names: "dir", "file" or "missing"
    scanResult,         \* what scan_directory returns on a directory
    localDirs,          \* localDirs[i]: the directory of project i on disk
    hostRepos,          \* names of the repositories that exist at the host
    \* ---- main(): locals ----
    mainPc,             \* the place of main() in its code
    exitCode,           \* the exit code, or NotExited
    discovered,         \* the local "projects"
    api,                \* "unset", "None" or "client"
    idx,                \* the loop variable i
    results,            \* the tally: success, skipped, failed
    attempt,            \* the loop variable of the push loop
    \* ---- observation of the run (not program state) ----
    initialDirs,        \* localDirs before the run
    authCalls,          \* calls of GitHubAPI(...) so far
    prompts,            \* answers read at the confirmation prompt so far
    calls,              \* host, README and git calls made for the current project
    outcomes,           \* the outcome of each project processed, in order
    \* ---- successive runs of main() (observation) ----
    runNo,              \* the number of the current run, from 1
    earlier,            \* earlier[r]: the outcomes of run r, for the runs that ended
    createLog,          \* the calls of api.create_repo over all the runs, in order
    \* ---- detect_project_type and get_project_description: one directory ----
    dirFiles,           \* the names of the files of the directory that the rules look at
    pkgJson,            \* what package.json holds, or "absent"
    pyproject,          \* the lines of pyproject.toml, or "absent" or "unreadable"
    readmeFiles,        \* readmeFiles[n]: the lines of the README named n, or NoLines
    clsType,            \* what detect_project_type returns
    clsDescription,     \* what get_project_description returns
    clsPc               \* "start", "typed", "done"

scanVars == <<dirParent, dirKind, symlink, dirEntries, rootState, max_depth, claude_only,
              scanPc, stack, projects, seen_paths, dirs_scanned, dirs_skipped,
              permission_errors, listed, rootsFound>>

scanInputs == <<dirParent, dirKind, symlink, dirEntries, rootState, max_depth, claude_only>>

sanVars == <<sanInput, sanOutput, sanAgain, sanPc>>

readmeVars == <<readme, rdName, rdType, rdDescription, rdInitial, rdHistory>>

runVars == <<dry_run, yes, tokenState, pathState, scanResult, localDirs, hostRepos,
             mainPc, exitCode, discovered, api, idx, results, attempt,
             initialDirs, authCalls, prompts, calls, outcomes,
             runNo, earlier, createLog>>

runInputs == <<dry_run, yes, tokenState, pathState, scanResult, initialDirs>>

clsVars == <<dirFiles, pkgJson, pyproject, readmeFiles, clsType, clsDescription, clsPc>>

clsInputs == <<dirFiles, pkgJson, pyproject, readmeFiles>>

vars == <<scanVars, sanVars, readmeVars, runVars, clsVars>>

\* The variables each part of the program leaves alone.
notScan == <<sanVars, readmeVars, runVars, clsVars>>
notSan == <<scanVars, readmeVars, runVars, clsVars>>
notReadme == <<scanVars, sanVars, runVars, clsVars>>
notRun == <<scanVars, sanVars, readmeVars, clsVars>>
notClassify == <<scanVars, sanVars, readmeVars, runVars>>

(***************************************************************************)
(* scanner.py: the marker catalog.                                         *)
(***************************************************************************)
PROJECT_MARKERS ==
    {".git", "package.json", "requirements.txt", "setup.py", "pyproject.toml",
     "Cargo.toml", "go.mod", "Makefile", "CMakeLists.txt", "pom.xml",
     "build.gradle", ".claude", "claude.json", ".claudeignore"}

SKIP_DIRS ==
    {"node_modules", ".git", "__pycache__", ".venv", "venv", "env", ".env",
     "dist", "build", ".next", ".nuxt", "target", ".cache", ".npm", ".yarn",
     ".pnpm-store", "$RECYCLE.BIN", "System Volume Information", "Recovery",
     ".Trash-1000"}

CLAUDE_INDICATORS ==
    {".claude", "claude.json", ".claudeignore", "CLAUDE.md", ".claude.toml"}

(***************************************************************************)
(* The directory trees the scan is run on.                                 *)
(***************************************************************************)
Dirs == 1..NDirs
Root == 1
NoLink == [from |-> 0, to |-> 0, first |-> FALSE]
LinkName == "link"

\* What a directory holds:
\*   plain   nothing but its sub-directories
\*   proj    package.json (a generic marker)
\*   claude  .claude (a marker that is also a Claude indicator)
\*   mdonly  CLAUDE.md (a Claude indicator that is no marker)
\*   skip    package.json, and the directory is named node_modules
\*   denied  listing it raises PermissionError
\*   ioerr   listing it raises another OSError
CommonKinds == {"plain", "proj"}
SpecialKinds == {"claude", "mdonly", "skip", "denied", "ioerr"}
Kinds == CommonKinds \cup SpecialKinds

OrdinaryNames == <<"work", "alpha", "beta", "gamma", "delta", "eps">>

\* The base name of directory d.
DirName(d) == IF dirKind[d] = "skip" THEN "node_modules" ELSE OrdinaryNames[d]

\* The names of the files (and marker directories) directly inside d.
FileNames(d) ==
    CASE dirKind[d] = "proj"   -> {"package.json", "index.js"}
      [] dirKind[d] = "claude" -> {".claude", "notes.txt"}
      [] dirKind[d] = "mdonly" -> {"CLAUDE.md"}
      [] dirKind[d] = "skip"   -> {"package.json"}
      [] OTHER                 -> {}

RECURSIVE SeqOfSet(_)
SeqOfSet(S) ==
    IF S = {} THEN <<>>
    ELSE LET m == CHOOSE x \in S : \A y \in S : x <= y
         IN  <<m>> \o SeqOfSet(S \ {m})

\* The sub-directory entries of d in listing order: each entry is a name and
\* the directory it leads to.  iterdir() fixes no order: the link comes before
\* or after the real children, as symlink.first says.
EntriesOf(d) ==
    LET kids == SeqOfSet({c \in Dirs : dirParent[c] = d})
        real == [i \in 1..Len(kids) |-> [name |-> DirName(kids[i]), node |-> kids[i]]]
        lnk  == [name |-> LinkName, node |-> symlink.to]
    IN  IF symlink.from # d THEN real
        ELSE IF symlink.first THEN <<lnk>> \o real
        ELSE Append(real, lnk)

\* e.name for the entries of directory.iterdir().
EntryNames(d) == FileNames(d) \cup {dirEntries[d][i].name : i \in 1..Len(dirEntries[d])}

\* Every directory but the root has a real parent with a smaller number, so
\* that the real containment is a tree rooted at Root.
IsTree(p) == p[Root] = 0 /\ \A d \in Dirs \ {Root} : p[d] \in 1..(d - 1)

\* At most one directory is of a special kind.
KindAssignments ==
    {k \in [Dirs -> Kinds] : Cardinality({d \in Dirs : k[d] \in SpecialKinds}) <= 1}

Links == {NoLink} \cup {[from |-> a, to |-> b, first |-> o] : a \in Dirs, b \in Dirs, o \in BOOLEAN}

RootStates == {"dir", "file", "missing"}

\* The directory that traversal path p (a sequence of entry names) leads to
\* from directory d: Path.resolve() of the path.
RECURSIVE ResolveFrom(_, _)
ResolveFrom(d, p) ==
    IF p = <<>> THEN d
    ELSE LET es == dirEntries[d]
             i  == CHOOSE k \in 1..Len(es) : es[k].name = Head(p)
         IN  ResolveFrom(es[i].node, Tail(p))

Resolve(p) == ResolveFrom(Root, p)

\* directory.name of traversal path p.
PathName(p) == IF p = <<>> THEN DirName(Root) ELSE p[Len(p)]

\* q is a proper prefix of p.
IsProperPrefix(q, p) == Len(q) < Len(p) /\ SubSeq(p, 1, Len(q)) = q

\* d is a proper ancestor of e in the real tree.
RECURSIVE IsAncestor(_, _)
IsAncestor(d, e) ==
    IF dirParent[e] = 0 THEN FALSE
    ELSE dirParent[e] = d \/ IsAncestor(d, dirParent[e])

(***************************************************************************)
(* scanner.py: is_claude_project and the marker check of _scan.            *)
(***************************************************************************)
is_claude_project(d) == \E indicator \in CLAUDE_INDICATORS : indicator \in FileNames(d)

markers_found(d) == {m \in PROJECT_MARKERS : m \in EntryNames(d)}

\* What directory.iterdir() does on d.
IterdirOutcome(d) ==
    CASE dirKind[d] = "denied" -> "PermissionError"
      [] dirKind[d] = "ioerr"  -> "OSError"
      [] OTHER                 -> "ok"

(***************************************************************************)
(* scanner.py: scan_directory.                                             *)
(***************************************************************************)
Frame(path, node, name, depth) ==
    [path |-> path, node |-> node, name |-> name, depth |-> depth, i |-> 0]

Top == stack[Len(stack)]
Pop == SubSeq(stack, 1, Len(stack) - 1)

InitScanVars ==
    /\ dirParent \in {p \in [Dirs -> 0..NDirs] : IsTree(p)}
    /\ dirKind \in KindAssignments
    /\ symlink \in Links
    /\ dirEntries = [d \in Dirs |-> EntriesOf(d)]
    /\ rootState \in RootStates
    /\ rootState # "dir" =>
          /\ dirKind = [d \in Dirs |-> "plain"]
          /\ symlink = NoLink
    /\ max_depth \in 0..(NDirs - 1)
    /\ claude_only \in BOOLEAN
    /\ scanPc = "start"
    /\ stack = <<>>
    /\ projects = <<>>
    /\ seen_paths = {}
    /\ dirs_scanned = 0
    /\ dirs_skipped = 0
    /\ permission_errors = 0
    /\ listed = {}
    /\ rootsFound = <<>>

\* scan_directory up to the first call of _scan: the checks of the root.
ScanStart ==
    /\ scanPc = "start"
    /\ IF rootState = "dir"
       THEN /\ scanPc' = "scanning"
            /\ stack' = <<Frame(<<>>, Root, DirName(Root), 0)>>
       ELSE /\ scanPc' = "done"
            /\ stack' = <<>>
    /\ UNCHANGED <<scanInputs, notScan,
                   projects, seen_paths, dirs_scanned, dirs_skipped,
                   permission_errors, listed, rootsFound>>

\* The record _scan appends for the directory of frame f.
ProjectInfo(f) ==
    [name          |-> f.name,
     path          |-> f.path,
     is_claude     |-> is_claude_project(f.node),
     has_git       |-> ".git" \in FileNames(f.node),
     markers_found |-> markers_found(f.node)]

\* Mutant: the depth bound is tested one level too late.
DepthExceeded_Late(depth) == depth > max_depth + 1

\* _scan exceeds the depth bound.
DepthExceeded(depth) == depth > max_depth

\* Mutant: no directory is pruned by its name.
NameSkipped_Never(name) == FALSE

\* _scan prunes the directory by its name.
NameSkipped(name) == name \in SKIP_DIRS

\* Mutant: the resolved path is not looked up in seen_paths.
AlreadySeen_Never(node) == FALSE

\* _scan meets a resolved path again.
AlreadySeen(node) == node \in seen_paths

\* Mutant: the claude_only filter is not applied.
Excluded_Never(node) == FALSE

\* _scan leaves a project root out of the result (the claude_only filter).
Excluded(node) == claude_only /\ ~is_claude_project(node)

\* Mutant: the error of iterdir() is not caught and ends every call of _scan.
ListingErrorCaught_Raise == <<>>

\* except PermissionError: / except OSError: the call of _scan returns.
ListingErrorCaught == Pop

\* _scan stops at a project root.
StopAtRoot(found) == found # {}

\* Mutant: the recursive call passes the depth on unchanged.
ChildDepth_Same(depth) == depth

\* _scan(entry, depth + 1)
ChildDepth(depth) == depth + 1

\* The body of _scan from its entry to the loop over the entries.
ScanBody ==
    /\ scanPc = "scanning"
    /\ stack # <<>>
    /\ Top.i = 0
    /\ LET f == Top IN
       IF DepthExceeded(f.depth)
       THEN /\ stack' = Pop
            /\ UNCHANGED <<projects, seen_paths, dirs_scanned, dirs_skipped,
                           permission_errors, listed, rootsFound>>
       ELSE IF NameSkipped(f.name)
       THEN /\ dirs_skipped' = dirs_skipped + 1
            /\ stack' = Pop
            /\ UNCHANGED <<projects, seen_paths, dirs_scanned,
                           permission_errors, listed, rootsFound>>
       ELSE /\ dirs_scanned' = dirs_scanned + 1
            /\ listed' = listed \cup {f.path}
            /\ UNCHANGED dirs_skipped
            /\ IF IterdirOutcome(f.node) = "PermissionError"
               THEN /\ permission_errors' = permission_errors + 1
                    /\ stack' = ListingErrorCaught
                    /\ UNCHANGED <<projects, seen_paths, rootsFound>>
               ELSE IF IterdirOutcome(f.node) = "OSError"
               THEN /\ stack' = ListingErrorCaught
                    /\ UNCHANGED <<projects, seen_paths, permission_errors, rootsFound>>
               ELSE IF StopAtRoot(markers_found(f.node))
               THEN /\ rootsFound' = Append(rootsFound, f.path)
                    /\ stack' = Pop
                    /\ UNCHANGED permission_errors
                    /\ IF ~AlreadySeen(f.node)
                       THEN /\ seen_paths' = seen_paths \cup {f.node}
                            /\ IF Excluded(f.node)
                               THEN UNCHANGED projects
                               ELSE projects' = Append(projects, ProjectInfo(f))
                       ELSE UNCHANGED <<projects, seen_paths>>
               ELSE /\ stack' = [stack EXCEPT ![Len(stack)].i = 1]
                    /\ UNCHANGED <<projects, seen_paths, permission_errors, rootsFound>>
    /\ UNCHANGED <<scanInputs, notScan, scanPc>>

\* One turn of _scan's loop over the entries, or its end.
ScanLoop ==
    /\ scanPc = "scanning"
    /\ stack # <<>>
    /\ Top.i > 0
    /\ LET f == Top
           es == dirEntries[f.node]
       IN  IF f.i > Len(es)
           THEN stack' = Pop
           ELSE LET e == es[f.i]
                    advanced == [stack EXCEPT ![Len(stack)].i = f.i + 1]
                IN  IF ~NameSkipped(e.name)
                    THEN stack' = Append(advanced,
                                         Frame(Append(f.path, e.name), e.node, e.name, ChildDepth(f.depth)))
                    ELSE stack' = advanced
    /\ UNCHANGED <<scanInputs, notScan,
                   scanPc, projects, seen_paths, dirs_scanned, dirs_skipped,
                   permission_errors, listed, rootsFound>>

\* _scan(root, 0) has returned: scan_directory returns projects.
ScanFinish ==
    /\ scanPc = "scanning"
    /\ stack = <<>>
    /\ scanPc' = "done"
    /\ UNCHANGED <<scanInputs, notScan,
                   stack, projects, seen_paths, dirs_scanned, dirs_skipped,
                   permission_errors, listed, rootsFound>>

\* What the caller of scan_directory gets once it has ended: no statement of
\* scan_directory raises for a bad root, the list projects is returned.
ScanOutcome == [raised |-> "nothing", returned |-> projects]

NextScan == ScanStart \/ ScanBody \/ ScanLoop \/ ScanFinish

\* The scanner before any call of scan_directory.
ScanIdle ==
    /\ dirParent = [d \in Dirs |-> IF d = Root THEN 0 ELSE Root]
    /\ dirKind = [d \in Dirs |-> "plain"]
    /\ symlink = NoLink
    /\ dirEntries = [d \in Dirs |-> EntriesOf(d)]
    /\ rootState = "dir"
    /\ max_depth = 0
    /\ claude_only = FALSE
    /\ scanPc = "start"
    /\ stack = <<>>
    /\ projects = <<>>
    /\ seen_paths = {}
    /\ dirs_scanned = 0
    /\ dirs_skipped = 0
    /\ permission_errors = 0
    /\ listed = {}
    /\ rootsFound = <<>>

(***************************************************************************)
(* upload_to_github.py: sanitize_repo_name, on strings as sequences of     *)
(* characters.                                                             *)
(***************************************************************************)
\* The characters str.isalnum() accepts, among those the model writes.
Letters == {"a", "c", "d", "e", "j", "m", "n", "o", "p", "r", "t", "u", "M", "y", "C", "l", "A"}
Digits == {"1"}
IsAlnum(c) == c \in Letters \cup Digits

\* The characters of the strings the model hands to sanitize_repo_name:
\* alphanumerics, the kept punctuation, the separators mapped to a hyphen,
\* and a character that is dropped.
InputChars == {"a", "1", "-", "_", ".", " ", "/", "\\", "!"}

\* "My Cool App!!", a directory name longer than the bounded strings.
MyCoolApp == <<"M", "y", " ", "C", "o", "o", "l", " ", "A", "p", "p", "!", "!">>
SampleNames == {MyCoolApp}

RECURSIVE StringsUpTo(_)
StringsUpTo(n) ==
    IF n = 0 THEN {<<>>}
    ELSE LET shorter == StringsUpTo(n - 1)
         IN  shorter \cup {Append(w, c) : w \in {v \in shorter : Len(v) = n - 1}, c \in InputChars}

\* The loop over the characters of name (lines 85-90).
RECURSIVE KeepOrMap(_)
KeepOrMap(name) ==
    IF name = <<>> THEN <<>>
    ELSE LET char == Head(name)
             rest == KeepOrMap(Tail(name))
         IN  IF IsAlnum(char) \/ char \in {"-", "_", "."} THEN <<char>> \o rest
             ELSE IF char \in {" ", "/", "\\"} THEN <<"-">> \o rest
             ELSE rest

RECURSIVE LStrip(_, _)
LStrip(w, chars) ==
    IF w # <<>> /\ Head(w) \in chars THEN LStrip(Tail(w), chars) ELSE w

RECURSIVE RStrip(_, _)
RStrip(w, chars) ==
    IF w # <<>> /\ w[Len(w)] \in chars THEN RStrip(SubSeq(w, 1, Len(w) - 1), chars) ELSE w

\* Mutant: only hyphens are stripped, dots are left.
StripHyphenDot_HyphenOnly(w) == RStrip(LStrip(w, {"-"}), {"-"})

\* sanitized.strip("-.")
StripHyphenDot(w) == RStrip(LStrip(w, {"-", "."}), {"-", "."})

\* "--" in w
HasDoubleHyphen(w) == \E i \in 1..(Len(w) - 1) : w[i] = "-" /\ w[i + 1] = "-"

\* w.replace("--", "-"): the occurrences are replaced from the left, without
\* overlap.
RECURSIVE ReplaceDoubleHyphen(_)
ReplaceDoubleHyphen(w) ==
    IF Len(w) < 2 THEN w
    ELSE IF w[1] = "-" /\ w[2] = "-"
         THEN <<"-">> \o ReplaceDoubleHyphen(SubSeq(w, 3, Len(w)))
         ELSE <<w[1]>> \o ReplaceDoubleHyphen(Tail(w))

\* Mutant: runs of hyphens are left as they are.
CollapseHyphens_Never(w) == w

\* while "--" in sanitized: sanitized = sanitized.replace("--", "-")
RECURSIVE CollapseHyphens(_)
CollapseHyphens(w) ==
    IF HasDoubleHyphen(w) THEN CollapseHyphens(ReplaceDoubleHyphen(w)) ELSE w

\* "unnamed-project"
Fallback == <<"u", "n", "n", "a", "m", "e", "d", "-", "p", "r", "o", "j", "e", "c", "t">>

sanitize_repo_name(name) ==
    LET sanitized == CollapseHyphens(StripHyphenDot(KeepOrMap(name)))
    IN  IF sanitized = <<>> THEN Fallback ELSE sanitized

NotComputed == <<"?">>

InitSanVars ==
    /\ sanInput \in StringsUpTo(MaxNameLen) \cup SampleNames
    /\ sanOutput = NotComputed
    /\ sanAgain = NotComputed
    /\ sanPc = "start"

\* sanitize_repo_name is applied to the input.
Sanitize ==
    /\ sanPc = "start"
    /\ sanOutput' = sanitize_repo_name(sanInput)
    /\ sanPc' = "once"
    /\ UNCHANGED <<sanInput, sanAgain, notSan>>

\* sanitize_repo_name is applied to its own result.
SanitizeAgain ==
    /\ sanPc = "once"
    /\ sanAgain' = sanitize_repo_name(sanOutput)
    /\ sanPc' = "twice"
    /\ UNCHANGED <<sanInput, sanOutput, notSan>>

NextSan == Sanitize \/ SanitizeAgain

SanIdle ==
    /\ sanInput = <<>>
    /\ sanOutput = NotComputed
    /\ sanAgain = NotComputed
    /\ sanPc = "start"

(***************************************************************************)
(* readme_generator.py, on file contents as sequences of tokens:           *)
(*   "n"  a line break (white space, which rstrip() removes)               *)
(*   "H"  the text  ## Support This Project                                *)
(*   "s"  the text  ---                                                    *)
(*   "h"  the heading of another section, such as  ## License              *)
(*   "x"  any other run of text, free of white space at its ends and of    *)
(*        the heading text                                                 *)
(***************************************************************************)
NoFile == <<"<no file>">>
Tokens == {"n", "H", "s", "h", "x"}
Whitespace == {"n"}

RECURSIVE ContentsUpTo(_)
ContentsUpTo(n) ==
    IF n = 0 THEN {<<>>}
    ELSE LET shorter == ContentsUpTo(n - 1)
         IN  shorter \cup {Append(w, t) : w \in {v \in shorter : Len(v) = n - 1}, t \in Tokens}

\* "\n".join(lines), each line a sequence of tokens.
RECURSIVE JoinLines(_)
JoinLines(lines) ==
    IF lines = <<>> THEN <<>>
    ELSE IF Len(lines) = 1 THEN lines[1]
    ELSE lines[1] \o <<"n">> \o JoinLines(Tail(lines))

\* _build_donation_section: the f-string, for a contact free of the heading
\* text.
build_donation_section ==
    <<"n", "s", "n", "n", "H", "n", "n", "x", "n", "n", "x", "n", "n", "x", "n", "n", "x">>

\* _get_install_instructions: the lines given for a project type.
get_install_instructions(project_type) ==
    CASE project_type \in {"Node.js/JavaScript", "Python", "Rust", "Go", "Java (Maven)",
                            "Java (Gradle)", "Ruby", "PHP"}
                                     -> <<(<<"x">>), (<<"x">>), (<<"x">>), (<<"x">>)>>
      [] project_type = "TypeScript" -> <<(<<"x">>), (<<"x">>), (<<"x">>), (<<"x">>), (<<"x">>)>>
      [] OTHER                       -> <<>>

\* generate_readme
generate_readme(project_name, project_type, description) ==
    LET blank   == <<>>
        text    == <<"x">>
        title   == <<text, blank>>
        desc    == IF description # <<>> THEN <<description, blank>> ELSE <<>>
        built   == IF project_type # "" THEN <<text, blank>> ELSE <<>>
        started == <<text, blank, text, blank, text, text, text, text, blank>>
        instr   == IF project_type # "" THEN get_install_instructions(project_type) ELSE <<>>
        install == IF instr # <<>> THEN <<text, blank>> \o instr \o <<blank>> ELSE <<>>
        license == <<text, blank, text>>
        lines   == title \o desc \o built \o started \o install \o license
                       \o <<build_donation_section>>
    IN  JoinLines(lines) \o <<"n">>

\* Mutant: the section is never found in the content.
HasSection_Never(content) == FALSE

\* "## Support This Project" in content
HasSection(content) == \E i \in 1..Len(content) : content[i] = "H"

\* content.split("## Support This Project")[0]
BeforeFirstHeading(content) ==
    LET i == CHOOSE k \in 1..Len(content) :
                 content[k] = "H" /\ \A j \in 1..(k - 1) : content[j] # "H"
    IN  SubSeq(content, 1, i - 1)

\* update_existing_readme
update_existing_readme(content) ==
    LET donation == build_donation_section
    IN  IF HasSection(content)
        THEN RStrip(BeforeFirstHeading(content), Whitespace) \o <<"n">> \o donation \o <<"n">>
        ELSE RStrip(content, Whitespace) \o <<"n">> \o donation \o <<"n">>

\* The content ensure_readme writes to README.md.
ensure_readme(current, project_name, project_type, description) ==
    IF current # NoFile
    THEN update_existing_readme(current)
    ELSE generate_readme(project_name, project_type, description)

\* The project descriptions handed to ensure_readme.
Descriptions == {<<>>, <<"x">>, <<"H">>}
ProjectTypes == {"Python", "Unknown"}

InitReadmeVars ==
    /\ readme \in {NoFile} \cup ContentsUpTo(MaxReadmeLen)
    /\ rdName = <<"a">>
    /\ rdType \in ProjectTypes
    /\ rdDescription \in Descriptions
    /\ rdInitial = readme
    /\ rdHistory = <<>>

\* One call of ensure_readme on the directory.
EnsureReadme ==
    /\ Len(rdHistory) < MaxStamps
    /\ readme' = ensure_readme(readme, rdName, rdType, rdDescription)
    /\ rdHistory' = Append(rdHistory, readme')
    /\ UNCHANGED <<rdName, rdType, rdDescription, rdInitial, notReadme>>

NextReadme == EnsureReadme

ReadmeIdle ==
    /\ readme = NoFile
    /\ rdName = <<"a">>
    /\ rdType = "Unknown"
    /\ rdDescription = <<>>
    /\ rdInitial = NoFile
    /\ rdHistory = <<>>

(***************************************************************************)
(* upload_to_github.py: main(), with github_api.py's GitHubAPI and         *)
(* git_init_and_push.                                                      *)
(***************************************************************************)
NotExited == -1
BRANCH == <<"m", "a", "1">>
NoRemote == <<"<none>">>
OtherRemote == <<"o", "t", "e", "r">>

\* The base names of the project directories a scan returns; two
\* directories of one scan may bear the same base name.
ProjectNames == {<<"a", "!">>, <<"1", " ", "a">>}

\* A project directory on disk: its README.md, whether .git and .gitignore
\* exist, its current branch and the URL of its remote origin.
FreshDir ==
    [readme |-> NoFile, hasGit |-> FALSE, gitignore |-> FALSE,
     branch |-> <<>>, remote |-> NoRemote]
ClonedDir ==
    [readme |-> <<"x", "n", "H", "n", "x", "n">>, hasGit |-> TRUE, gitignore |-> TRUE,
     branch |-> <<"d", "e">>, remote |-> OtherRemote]
DirStates == {FreshDir, ClonedDir}

\* The record scan_directory returns for a directory named name.
ScannedProject(name, dir) ==
    [name |-> name, dir |-> dir,
     type |-> IF dir.hasGit THEN "Python" ELSE "Unknown",
     description |-> IF dir.hasGit THEN <<"x">> ELSE <<>>]

\* The project directories a scan may return: one without git and one
\* cloned under the first name, one without git under the second.
ScannedDirs ==
    {[name |-> nm, dir |-> d] : nm \in ProjectNames, d \in DirStates}
        \ {[name |-> <<"1", " ", "a">>, dir |-> ClonedDir]}

RECURSIVE ProjectLists(_)
ProjectLists(n) ==
    IF n = 0 THEN {<<>>}
    ELSE LET shorter == ProjectLists(n - 1)
         IN  shorter \cup {Append(l, p) :
                              l \in {v \in shorter : Len(v) = n - 1},
                              p \in ScannedDirs}

InitRunVars ==
    /\ dry_run \in BOOLEAN
    /\ yes \in BOOLEAN
    /\ tokenState \in {"missing", "rejected", "ok"}
    /\ pathState \in {"dir", "file", "missing"}
    /\ \E l \in ProjectLists(MaxProjects) :
          /\ scanResult = [i \in 1..Len(l) |-> ScannedProject(l[i].name, l[i].dir)]
          /\ localDirs = [i \in 1..Len(l) |-> l[i].dir]
    /\ initialDirs = localDirs
    /\ hostRepos \in {{}, {<<"a">>}}
    /\ mainPc = "start"
    /\ exitCode = NotExited
    /\ discovered = <<>>
    /\ api = "unset"
    /\ idx = 0
    /\ results = [success |-> <<>>, skipped |-> <<>>, failed |-> <<>>]
    /\ attempt = 0
    /\ authCalls = 0
    /\ prompts = <<>>
    /\ calls = <<>>
    /\ outcomes = <<>>
    /\ runNo = 1
    /\ earlier = <<>>
    /\ createLog = <<>>

Call(op, arg) == [op |-> op, arg |-> arg]

\* sys.exit(code)
Exit(code) ==
    /\ mainPc' = "exit"
    /\ exitCode' = code

\* main() from its start to the table of projects: the path is looked up (in
\* its variants too), the scan is run and an empty result ends the run.
MainStart ==
    /\ mainPc = "start"
    /\ IF pathState = "missing"
       THEN /\ Exit(1)
            /\ UNCHANGED discovered
       ELSE /\ discovered' = IF pathState = "dir" THEN scanResult ELSE <<>>
            /\ IF discovered' = <<>>
               THEN Exit(0)
               ELSE /\ mainPc' = "confirm"
                    /\ UNCHANGED exitCode
    /\ UNCHANGED <<runInputs, localDirs, hostRepos, api, idx, results, attempt,
                   authCalls, prompts, calls, outcomes, runNo, earlier, createLog, notRun>>

\* The answers the user may type at the prompt, stripped and lowered.
Responses == {"y", "yes", "n", ""}

\* Mutant: any answer is taken for a yes.
Accepted_Always(response) == TRUE

\* if response not in ("y", "yes"): (cancelled)
Accepted(response) == response \in {"y", "yes"}

\* Step 2: the confirmation prompt.
Confirm ==
    /\ mainPc = "confirm"
    /\ IF ~yes /\ ~dry_run
       THEN \E response \in Responses :
               /\ prompts' = Append(prompts, response)
               /\ IF ~Accepted(response)
                  THEN Exit(0)
                  ELSE /\ mainPc' = "connect"
                       /\ UNCHANGED exitCode
       ELSE /\ mainPc' = "connect"
            /\ UNCHANGED <<exitCode, prompts>>
    /\ UNCHANGED <<runInputs, localDirs, hostRepos, discovered, api, idx, results,
                   attempt, authCalls, calls, outcomes, runNo, earlier, createLog, notRun>>

\* Mutant: GitHubAPI(token) never raises.
Authenticated_Always == TRUE

\* GitHubAPI(token) returns: a token is found and GET /user gives a login.
Authenticated == tokenState = "ok"

\* Step 3: GitHubAPI(token) unless the run is a dry run; the tally is set up.
Connect ==
    /\ mainPc = "connect"
    /\ IF ~dry_run
       THEN /\ authCalls' = authCalls + 1
            /\ IF Authenticated
               THEN /\ api' = "client"
                    /\ mainPc' = "loop"
                    /\ UNCHANGED exitCode
               ELSE /\ Exit(1)
                    /\ UNCHANGED api
       ELSE /\ api' = "None"
            /\ mainPc' = "loop"
            /\ UNCHANGED <<exitCode, authCalls>>
    /\ idx' = 1
    /\ results' = [success |-> <<>>, skipped |-> <<>>, failed |-> <<>>]
    /\ UNCHANGED <<runInputs, localDirs, hostRepos, discovered, attempt,
                   prompts, calls, outcomes, runNo, earlier, createLog, notRun>>

\* The project of the current turn of the loop, and its repository name.
project == discovered[idx]
repoName == sanitize_repo_name(project.name)

\* results["success"].append(name), and the loop goes on.
Succeed ==
    /\ results' = [results EXCEPT !.success = Append(@, repoName)]
    /\ outcomes' = Append(outcomes, "Succeeded")
    /\ idx' = idx + 1
    /\ mainPc' = "loop"

\* Mutant: a failure of one project ends the run, untallied.
Fail_Abort ==
    /\ results' = results
    /\ outcomes' = outcomes
    /\ idx' = idx
    /\ mainPc' = "exit"

\* results["failed"].append(name), and the loop goes on.
Fail ==
    /\ results' = [results EXCEPT !.failed = Append(@, repoName)]
    /\ outcomes' = Append(outcomes, "Failed")
    /\ idx' = idx + 1
    /\ mainPc' = "loop"

\* Mutant: the loop does not test the dry-run flag.
IsDryRun_Never == FALSE

\* if args.dry_run:
IsDryRun == dry_run

\* One turn of the loop in a dry run.
DryRunProject ==
    /\ mainPc = "loop"
    /\ idx <= Len(discovered)
    /\ IsDryRun
    /\ calls' = <<>>
    /\ Succeed
    /\ UNCHANGED <<runInputs, localDirs, hostRepos, exitCode, discovered, api,
                   attempt, authCalls, prompts, runNo, earlier, createLog, notRun>>

\* Mutant: the turn starts with the README, before the host is asked.
FirstStep_Readme == "readme"

\* The first statement of the try block: exists = api.repo_exists(name)
FirstStep == "exists"

\* The start of one turn of the loop in a real run.
BeginProject ==
    /\ mainPc = "loop"
    /\ idx <= Len(discovered)
    /\ ~IsDryRun
    /\ calls' = <<>>
    /\ mainPc' = FirstStep
    /\ UNCHANGED <<runInputs, localDirs, hostRepos, exitCode, discovered, api, idx,
                   results, attempt, authCalls, prompts, outcomes, runNo, earlier, createLog, notRun>>

\* What the host answers to GET /repos/<user>/<name>: 200 when the repository
\* exists, 404 when it does not, or at any time another error, whose text
\* may hold the digits 404.
HostAnswers(repo) ==
    (IF repo \in hostRepos THEN {"200"} ELSE {"404"})
        \cup {"error", "error with 404 in its text"}

\* "404" in str(e), for the RuntimeError that _request raises.
Has404(response) == response \in {"404", "error with 404 in its text"}

\* Mutant: the repository is created whatever repo_exists returned.
SkipsCreate_Never(exists) == FALSE

\* if exists: (no creation)
SkipsCreate(exists) == exists

\* api.repo_exists(name): True on an answer, False on an error whose text
\* holds 404, any other error is raised; main() goes on to the creation or
\* past it.
RepoExists ==
    /\ mainPc = "exists"
    /\ \E response \in HostAnswers(repoName) :
          /\ calls' = Append(calls, Call("exists", response))
          /\ IF response # "200" /\ ~Has404(response)
             THEN Fail
             ELSE /\ mainPc' = IF SkipsCreate(response = "200") THEN "readme" ELSE "create"
                  /\ UNCHANGED <<idx, results, outcomes>>
    /\ UNCHANGED <<runInputs, localDirs, hostRepos, exitCode, discovered, api,
                   attempt, authCalls, prompts, runNo, earlier, createLog, notRun>>

\* api.create_repo(name, ...): the repository is created, or an error raised
\* (always when the name is taken: the host answers 422).
CreateRepo ==
    /\ mainPc = "create"
    /\ calls' = Append(calls, Call("create", 0))
    /\ \E raised \in {TRUE} \cup {repoName \in hostRepos} :
          /\ createLog' = Append(createLog, [run |-> runNo, idx |-> idx, name |-> repoName,
                                             after |-> calls[1].arg, created |-> ~raised])
          /\ IF raised
             THEN /\ Fail
                  /\ UNCHANGED hostRepos
             ELSE /\ hostRepos' = hostRepos \cup {repoName}
                  /\ mainPc' = "readme"
                  /\ UNCHANGED <<idx, results, outcomes>>
    /\ UNCHANGED <<runInputs, localDirs, exitCode, discovered, api,
                   attempt, authCalls, prompts, runNo, earlier, notRun>>

\* ensure_readme(project["path"], name, ...): README.md is written, or the
\* read or the write raises.
StampReadme ==
    /\ mainPc = "readme"
    /\ \E raised \in BOOLEAN :
          IF raised
          THEN /\ Fail
               /\ UNCHANGED <<localDirs, calls>>
          ELSE /\ localDirs' = [localDirs EXCEPT ![idx].readme =
                                   ensure_readme(@, repoName, project.type, project.description)]
               /\ calls' = Append(calls, Call("write README", 0))
               /\ mainPc' = "git"
               /\ UNCHANGED <<idx, results, outcomes>>
    /\ UNCHANGED <<runInputs, hostRepos, exitCode, discovered, api,
                   attempt, authCalls, prompts, runNo, earlier, createLog, notRun>>

\* The git commands whose failure the model follows: the branch exists
\* already, a file cannot be staged, no identity is configured or a hook
\* refuses the commit, the remote cannot be written.
FailableCommands == {"git add -A", "git commit"}
NoFailure == "none"

\* result.returncode of a command, given the command that fails.
ReturnCode(op, failed) == IF op = failed THEN 1 ELSE 0

\* run_git(*args): the command is run and its result returned, whatever its
\* return code.
RunGit(op, failed) == Call(op, ReturnCode(op, failed))

\* git status --porcelain: the log keeps the number of lines it printed,
\* none when the working tree is clean.
GitStatus(pending) == Call("git status", IF pending THEN 1 ELSE 0)

\* Mutant: the commit is issued whatever git status printed.
CommitNeeded_Always(pending) == TRUE

\* if status.stdout.strip():
CommitNeeded(pending) == pending

\* The git commands of git_init_and_push before the push loop, given whether
\* status reports pending changes and which command fails.
GitCommands(dir, url, pending, failed) ==
    (IF ~dir.hasGit
     THEN <<RunGit("git init", failed), RunGit("git checkout -b", failed)>>
     ELSE <<RunGit("git branch --show-current", failed)>>
              \o (IF dir.branch # <<>> /\ dir.branch # BRANCH
                  THEN <<RunGit("git checkout -b", failed)>> ELSE <<>>))
    \o <<RunGit("git add -A", failed), GitStatus(pending)>>
    \o (IF CommitNeeded(pending) THEN <<RunGit("git commit", failed)>> ELSE <<>>)
    \o <<Call("git remote get-url", IF dir.remote = NoRemote THEN 1 ELSE 0)>>
    \o (IF dir.remote = NoRemote THEN <<RunGit("git remote add", failed)>>
        ELSE IF dir.remote # url THEN <<RunGit("git remote set-url", failed)>>
        ELSE <<>>)

\* The project directory after those commands: a command that failed has
\* changed nothing.
AfterGitCommands(dir, url, failed) ==
    [dir EXCEPT !.hasGit = TRUE,
                !.gitignore = TRUE,
                !.branch = IF failed = "git checkout -b" THEN @ ELSE BRANCH,
                !.remote = IF failed \in {"git remote add", "git remote set-url"}
                           THEN @ ELSE url]

\* git_init_and_push up to its push loop, or subprocess.run raising (git
\* cannot be started).
GitPrepare ==
    /\ mainPc = "git"
    /\ \E raised \in BOOLEAN :
          IF raised
          THEN /\ Fail
               /\ UNCHANGED <<localDirs, calls, attempt>>
          ELSE \E pending \in BOOLEAN, failed \in FailableCommands \cup {NoFailure} :
               /\ calls' = calls \o GitCommands(localDirs[idx], repoName, pending, failed)
               /\ localDirs' = [localDirs EXCEPT ![idx] = AfterGitCommands(@, repoName, failed)]
               /\ attempt' = 0
               /\ mainPc' = "push"
               /\ UNCHANGED <<idx, results, outcomes>>
    /\ UNCHANGED <<runInputs, hostRepos, exitCode, discovered, api,
                   authCalls, prompts, runNo, earlier, createLog, notRun>>

\* Mutant: the loop makes three attempts.
PushAttempts_Three == 4 - 1

\* range(4)
PushAttempts == 4

RECURSIVE Pow2(_)
Pow2(n) == IF n = 0 THEN 1 ELSE 2 * Pow2(n - 1)

\* Mutant: the wait does not grow.
BackoffWait_Constant(a) == 2

\* wait = 2 ** (attempt + 1)
BackoffWait(a) == Pow2(a + 1)

\* Mutant: a successful push does not leave the loop.
PushReturns_Never(returncode) == FALSE

\* if result.returncode == 0: return True
PushReturns(returncode) == returncode = 0

\* One turn of the push loop: git push, then return True, or the wait before
\* the next turn, or (after the last turn) return False; main() tallies what
\* git_init_and_push returns.
PushAttempt ==
    /\ mainPc = "push"
    /\ \E returncode \in {0, 1} :
          LET pushed == Append(calls, Call("git push", returncode)) IN
          IF PushReturns(returncode)
          THEN /\ calls' = pushed
               /\ Succeed
               /\ UNCHANGED attempt
          ELSE IF attempt + 1 < PushAttempts
          THEN /\ calls' = IF attempt < 3
                           THEN Append(pushed, Call("sleep", BackoffWait(attempt)))
                           ELSE pushed
               /\ attempt' = attempt + 1
               /\ UNCHANGED <<mainPc, idx, results, outcomes>>
          ELSE /\ calls' = IF attempt < 3
                           THEN Append(pushed, Call("sleep", BackoffWait(attempt)))
                           ELSE pushed
               /\ Fail
               /\ UNCHANGED attempt
    /\ UNCHANGED <<runInputs, localDirs, hostRepos, exitCode, discovered, api,
                   authCalls, prompts, runNo, earlier, createLog, notRun>>

\* The loop has ended: the summary is printed and main() returns.
Summary ==
    /\ mainPc = "loop"
    /\ idx > Len(discovered)
    /\ Exit(0)
    /\ UNCHANGED <<runInputs, localDirs, hostRepos, discovered, api, idx, results,
                   attempt, authCalls, prompts, calls, outcomes, runNo, earlier, createLog, notRun>>

NextRun ==
    \/ MainStart \/ Confirm \/ Connect
    \/ DryRunProject \/ BeginProject
    \/ RepoExists \/ CreateRepo \/ StampReadme \/ GitPrepare \/ PushAttempt
    \/ Summary

\* The program is started again with the same command line, on the project
\* directories and the host as the run before left them.  The scan returns
\* the same records: publishing changes neither the name nor the marker
\* files of a directory, and the description, which a README written by the
\* run before may change, is read only where no README exists.
NewRun ==
    /\ mainPc = "exit"
    /\ runNo < MaxRuns
    /\ runNo' = runNo + 1
    /\ earlier' = Append(earlier, outcomes)
    /\ initialDirs' = localDirs
    /\ mainPc' = "start"
    /\ exitCode' = NotExited
    /\ discovered' = <<>>
    /\ api' = "unset"
    /\ idx' = 0
    /\ results' = [success |-> <<>>, skipped |-> <<>>, failed |-> <<>>]
    /\ attempt' = 0
    /\ authCalls' = 0
    /\ prompts' = <<>>
    /\ calls' = <<>>
    /\ outcomes' = <<>>
    /\ UNCHANGED <<dry_run, yes, tokenState, pathState, scanResult, localDirs,
                   hostRepos, createLog, notRun>>

NextRerun == NextRun \/ NewRun

RunIdle ==
    /\ dry_run = FALSE
    /\ yes = FALSE
    /\ tokenState = "ok"
    /\ pathState = "dir"
    /\ scanResult = <<>>
    /\ localDirs = <<>>
    /\ initialDirs = <<>>
    /\ hostRepos = {}
    /\ mainPc = "start"
    /\ exitCode = NotExited
    /\ discovered = <<>>
    /\ api = "unset"
    /\ idx = 0
    /\ results = [success |-> <<>>, skipped |-> <<>>, failed |-> <<>>]
    /\ attempt = 0
    /\ authCalls = 0
    /\ prompts = <<>>
    /\ calls = <<>>
    /\ outcomes = <<>>
    /\ runNo = 1
    /\ earlier = <<>>
    /\ createLog = <<>>

(***************************************************************************)
(* scanner.py: detect_project_type and get_project_description, on one     *)
(* directory.                                                              *)
(***************************************************************************)
\* The list checks of detect_project_type.
checks ==
    << <<"package.json", "Node.js/JavaScript">>,
       <<"tsconfig.json", "TypeScript">>,
       <<"requirements.txt", "Python">>,
       <<"setup.py", "Python">>,
       <<"pyproject.toml", "Python">>,
       <<"Cargo.toml", "Rust">>,
       <<"go.mod", "Go">>,
       <<"pom.xml", "Java (Maven)">>,
       <<"build.gradle", "Java (Gradle)">>,
       <<"CMakeLists.txt", "C/C++ (CMake)">>,
       <<"Makefile", "C/C++ (Make)">>,
       <<"Gemfile", "Ruby">>,
       <<"composer.json", "PHP">>,
       <<"pubspec.yaml", "Dart/Flutter">>,
       <<"*.sln", "C#/.NET">> >>

\* The patterns of checks, i.e. the names with filename.startswith("*"), and
\* the file names of the model that project_path.glob(pattern) yields.
GlobPatterns == {"*.sln"}
GlobMatches(pattern) == IF pattern = "*.sln" THEN {"app.sln"} ELSE {}

\* The file names a classified directory may hold: those the rules name, one
\* that the glob matches and one that no rule looks at.
RuleFileNames == {checks[i][1] : i \in 1..Len(checks)} \ GlobPatterns
ClassifiedFileNames == RuleFileNames \cup {"app.sln", "notes.txt"}

\* The test of one rule: the glob over the children, or exists().
RuleMatches(filename, fileset) ==
    IF filename \in GlobPatterns
    THEN GlobMatches(filename) \cap fileset # {}
    ELSE filename \in fileset

\* Mutant: the last rule that matches gives the type.
FirstMatch_Last(i, fileset) ==
    LET matching == {k \in i..Len(checks) : RuleMatches(checks[k][1], fileset)}
    IN  IF matching = {} THEN "Unknown"
        ELSE checks[CHOOSE k \in matching : \A j \in matching : j <= k][2]

\* The loop of detect_project_type from rule i on.
RECURSIVE FirstMatch(_, _)
FirstMatch(i, fileset) ==
    IF i > Len(checks) THEN "Unknown"
    ELSE IF RuleMatches(checks[i][1], fileset) THEN checks[i][2]
    ELSE FirstMatch(i + 1, fileset)

detect_project_type(fileset) == FirstMatch(1, fileset)

\* A description: where it was read (file and line) and its length; the
\* empty string; and, in place of a description, an exception on its way to
\* the caller.
Described(src, line, len) == [src |-> src, line |-> line, len |-> len]
EmptyDescription == Described("", 0, 0)
Raises == Described("exception", 0, 0)

\* What package.json may hold: text that json.load rejects (or a file that
\* cannot be opened), a value that is no object, an object without a
\* description, with an empty one, or with a description.
PkgStates ==
    {"absent", "unreadable", "not an object", "no description", "empty description",
     "description"}

\* The block of package.json before its except clause.
ReadPackageJson(pkg) ==
    CASE pkg \in {"unreadable", "not an object"} -> Raises
      [] pkg = "description"                      -> Described("package.json", 0, 40)
      [] OTHER                                    -> EmptyDescription

\* The lines of pyproject.toml: a line that does not start with description,
\* description = "..." with a text, description = "" and a line that starts
\* with description but holds no "=".
PyLineKinds == {"other", "description = text", "description = empty", "description, no ="}
NoLines == <<"absent">>
Unreadable == <<"unreadable">>

RECURSIVE LinesUpTo(_, _)
LinesUpTo(kinds, n) ==
    IF n = 0 THEN {<<>>}
    ELSE LET shorter == LinesUpTo(kinds, n - 1)
         IN  shorter \cup {Append(w, k) : w \in {v \in shorter : Len(v) = n - 1}, k \in kinds}

\* The loop over the lines of pyproject.toml from line i on.
RECURSIVE ScanPyproject(_, _)
ScanPyproject(lines, i) ==
    IF i > Len(lines) THEN EmptyDescription
    ELSE CASE lines[i] = "description = text"  -> Described("pyproject.toml", i, 40)
           [] lines[i] = "description, no ="   -> Raises
           [] OTHER                            -> ScanPyproject(lines, i + 1)

\* The block of pyproject.toml before its except clause.
ReadPyproject(py) ==
    IF py = Unreadable THEN Raises ELSE ScanPyproject(py, 1)

\* The lines of a README: blank (empty after strip()), a heading (starts
\* with "#" after strip()), a short text, or a text longer than 200
\* characters.
ReadmeLineKinds == {"blank", "heading", "short text", "long text"}
StrippedLen(kind) == IF kind = "long text" THEN 250 ELSE IF kind = "short text" THEN 16 ELSE 0
Min(a, b) == IF a <= b THEN a ELSE b

\* Mutant: every line of the README is looked at.
ReadmeSlice_All(lines) == 1..Len(lines)

\* The indices (from 1) of the lines in lines[1:6].
ReadmeSlice(lines) == 2..Min(6, Len(lines))

\* stripped and not stripped.startswith("#")
IsDescriptionLine(kind) == kind \in {"short text", "long text"}

\* The block of one README before its except clause.
ReadReadme(readme_name, lines) ==
    IF lines = Unreadable THEN Raises
    ELSE LET hits == {i \in ReadmeSlice(lines) : IsDescriptionLine(lines[i])}
         IN  IF hits = {} THEN EmptyDescription
             ELSE LET i == CHOOSE k \in hits : \A j \in hits : k <= j
                  IN  Described(readme_name, i, Min(StrippedLen(lines[i]), 200))

\* The names of the loop over the README files.
ReadmeNames == <<"README.md", "README.txt", "README", "readme.md">>

\* Mutant: an exception of a source is not caught.
Swallow_Nothing(outcome) == outcome

\* try ... except Exception: the source gives no result.
Swallow(outcome) == IF outcome = Raises THEN EmptyDescription ELSE outcome

\* The loop over the README files from name i on, and return "".
RECURSIVE ScanReadmes(_, _)
ScanReadmes(files, i) ==
    IF i > Len(ReadmeNames) THEN EmptyDescription
    ELSE LET readme_name == ReadmeNames[i]
             got == IF files[readme_name] = NoLines THEN EmptyDescription
                    ELSE Swallow(ReadReadme(readme_name, files[readme_name]))
         IN  IF got # EmptyDescription THEN got ELSE ScanReadmes(files, i + 1)

get_project_description(pkg, py, files) ==
    LET fromPkg == IF pkg # "absent" THEN Swallow(ReadPackageJson(pkg)) ELSE EmptyDescription
        fromPy  == IF py # NoLines THEN Swallow(ReadPyproject(py)) ELSE EmptyDescription
    IN  IF fromPkg # EmptyDescription THEN fromPkg
        ELSE IF fromPy # EmptyDescription THEN fromPy
        ELSE ScanReadmes(files, 1)

\* The README files of a directory without one.
NoReadmes == [n \in {ReadmeNames[i] : i \in 1..Len(ReadmeNames)} |-> NoLines]
TitleOnly == <<"heading">>
TitleAndText == <<"heading", "short text">>

\* The directories classified: any few of the files the rules look at; any
\* package.json and pyproject.toml beside a simple README.md; any README.md
\* beside a package.json without description and a simple README.txt; and
\* any four simple README files.
InitClassifyVars ==
    /\ \/ /\ dirFiles \in {fs \in SUBSET ClassifiedFileNames : Cardinality(fs) <= MaxFiles}
          /\ pkgJson = IF "package.json" \in dirFiles THEN "no description" ELSE "absent"
          /\ pyproject = IF "pyproject.toml" \in dirFiles THEN <<>> ELSE NoLines
          /\ readmeFiles = NoReadmes
       \/ /\ pkgJson \in PkgStates
          /\ pyproject \in {NoLines, Unreadable} \cup LinesUpTo(PyLineKinds, MaxPyLines)
          /\ readmeFiles \in {[NoReadmes EXCEPT !["README.md"] = c] :
                                 c \in {NoLines, Unreadable, TitleOnly, TitleAndText}}
          /\ dirFiles = (IF pkgJson # "absent" THEN {"package.json"} ELSE {})
                            \cup (IF pyproject # NoLines THEN {"pyproject.toml"} ELSE {})
       \/ /\ pkgJson \in {"absent", "no description"}
          /\ pyproject = NoLines
          /\ readmeFiles \in {[NoReadmes EXCEPT !["README.md"] = c, !["README.txt"] = t] :
                                 c \in LinesUpTo(ReadmeLineKinds, MaxLines),
                                 t \in {NoLines, TitleAndText}}
          /\ dirFiles = IF pkgJson # "absent" THEN {"package.json"} ELSE {}
       \/ /\ pkgJson = "absent"
          /\ pyproject = NoLines
          /\ readmeFiles \in [{ReadmeNames[i] : i \in 1..Len(ReadmeNames)} ->
                                 {NoLines, Unreadable, TitleOnly, TitleAndText}]
          /\ dirFiles = {}
    /\ clsType = "?"
    /\ clsDescription = EmptyDescription
    /\ clsPc = "start"

\* "type": detect_project_type(directory)
DetectType ==
    /\ clsPc = "start"
    /\ clsType' = detect_project_type(dirFiles)
    /\ clsPc' = "typed"
    /\ UNCHANGED <<clsInputs, clsDescription, notClassify>>

\* "description": get_project_description(directory)
GetDescription ==
    /\ clsPc = "typed"
    /\ clsDescription' = get_project_description(pkgJson, pyproject, readmeFiles)
    /\ clsPc' = "done"
    /\ UNCHANGED <<clsInputs, clsType, notClassify>>

NextClassify == DetectType \/ GetDescription

ClassifyIdle ==
    /\ dirFiles = {}
    /\ pkgJson = "absent"
    /\ pyproject = NoLines
    /\ readmeFiles = NoReadmes
    /\ clsType = "?"
    /\ clsDescription = EmptyDescription
    /\ clsPc = "start"

(***************************************************************************)
(* The specifications.                                                     *)
(***************************************************************************)
InitScan == InitScanVars /\ SanIdle /\ ReadmeIdle /\ RunIdle /\ ClassifyIdle
SpecScan == InitScan /\ [][NextScan]_vars

\* scan_directory runs in one thread and none of its steps waits for
\* anything: a step that can be taken is taken.
SpecScanFair == SpecScan /\ WF_vars(NextScan)

InitSan == InitSanVars /\ ScanIdle /\ ReadmeIdle /\ RunIdle /\ ClassifyIdle
SpecSan == InitSan /\ [][NextSan]_vars

InitReadme == InitReadmeVars /\ ScanIdle /\ SanIdle /\ RunIdle /\ ClassifyIdle
SpecReadme == InitReadme /\ [][NextReadme]_vars

InitRun == InitRunVars /\ ScanIdle /\ SanIdle /\ ReadmeIdle /\ ClassifyIdle
SpecRun == InitRun /\ [][NextRun]_vars

InitClassify == InitClassifyVars /\ ScanIdle /\ SanIdle /\ ReadmeIdle /\ RunIdle
SpecClassify == InitClassify /\ [][NextClassify]_vars

\* main() run again and again on the same directory and host, with a
\* command line that lets it reach the loop over the projects: an existing
\* directory that holds one project at most, --yes and a valid credential.
InitRerun ==
    /\ InitRun
    /\ pathState = "dir"
    /\ Len(scanResult) <= 1
    /\ yes
    /\ tokenState = "ok"

SpecRerun == InitRerun /\ [][NextRerun]_vars

(***************************************************************************)
(* Claims about the scanner, checked under SpecScan.                       *)
(***************************************************************************)
RecordIdx == 1..Len(projects)
FoundIdx == 1..Len(rootsFound)
FoundSet == {rootsFound[i] : i \in FoundIdx}
RecordPaths == {projects[i].path : i \in RecordIdx}

\* The sub-directory entries of the directory at traversal path p that the
\* loop of _scan would call _scan on.
EligibleEntries(p) ==
    LET es == dirEntries[Resolve(p)]
    IN  {es[i].name : i \in {k \in 1..Len(es) : es[k].name \notin SKIP_DIRS}}

\* C1: scan_directory never holds two project records whose resolved
\* canonical paths are equal; a canonical path is recorded at the first
\* traversal path that reaches it (unless the filter leaves it out) and every
\* later arrival at it is dropped.
C1_NoDuplicateCanonical ==
    /\ \A i, j \in RecordIdx :
          i # j => Resolve(projects[i].path) # Resolve(projects[j].path)
    /\ \A i \in FoundIdx :
          LET first == \A j \in 1..(i - 1) : Resolve(rootsFound[j]) # Resolve(rootsFound[i])
          IN  IF first
              THEN (rootsFound[i] \in RecordPaths)
                       <=> ~(claude_only /\ ~is_claude_project(Resolve(rootsFound[i])))
              ELSE rootsFound[i] \notin RecordPaths

\* C1 witness: the scan has ended after reaching one project directory by
\* two traversal paths, and returns it once.
C1_Witness ==
    /\ scanPc = "done"
    /\ \E i, j \in FoundIdx :
          /\ i < j
          /\ Resolve(rootsFound[i]) = Resolve(rootsFound[j])
          /\ rootsFound[i] \in RecordPaths

\* C2: no traversal path on which the scanner lists a directory passes
\* through a directory the scan identified as a project root, and none has a
\* base name of the prune set, the scan root included.
C2_NoDescentBelowRootOrPruned ==
    \A p \in listed :
        /\ PathName(p) \notin SKIP_DIRS
        /\ \A k \in 0..(Len(p) - 1) :
              LET q == SubSeq(p, 1, k)
              IN  /\ q \notin FoundSet
                  /\ markers_found(Resolve(q)) = {}
                  /\ PathName(q) \notin SKIP_DIRS

\* C2 witness: the scan has ended having found a project root that has a
\* sub-directory, and having met an entry named in the prune set.
C2_Witness ==
    /\ scanPc = "done"
    /\ \E q \in FoundSet : EligibleEntries(q) # {}
    /\ \/ \E p \in listed : \E i \in 1..Len(dirEntries[Resolve(p)]) :
              dirEntries[Resolve(p)][i].name \in SKIP_DIRS
       \/ dirs_skipped > 0

\* C3: only directories at depth <= max_depth are listed; at the end of the
\* scan every non-pruned sub-directory at depth <= max_depth of a listed
\* directory that is no project root has been listed too (depth max_depth
\* included), and none deeper; every record lies at depth <= max_depth, and
\* with max_depth = 0 the result is empty or the record of the root alone.
C3_DepthBound ==
    /\ \A p \in listed : Len(p) <= max_depth
    /\ \A i \in RecordIdx : Len(projects[i].path) <= max_depth
    /\ max_depth = 0 =>
          \/ projects = <<>>
          \/ Len(projects) = 1 /\ projects[1].path = <<>>
    /\ scanPc = "done" /\ rootState = "dir" /\ DirName(Root) \notin SKIP_DIRS =>
          /\ <<>> \in listed
          /\ \A p \in listed :
                (/\ IterdirOutcome(Resolve(p)) = "ok"
                 /\ markers_found(Resolve(p)) = {}
                 /\ Len(p) < max_depth)
                => \A n \in EligibleEntries(p) : Append(p, n) \in listed

\* C3 witness: the scan has ended having marker-checked a project root at
\* depth max_depth >= 1 and a plain directory at depth max_depth whose
\* sub-directories were not listed.
C3_Witness ==
    /\ scanPc = "done"
    /\ max_depth >= 1
    /\ \E p \in listed :
          /\ Len(p) = max_depth
          /\ markers_found(Resolve(p)) = {}
          /\ EligibleEntries(p) # {}
    /\ \E i \in RecordIdx : Len(projects[i].path) = max_depth

\* C4: with claude_only on, no record is of a directory without a Claude
\* indicator, and a project root without one still ends the traversal: no
\* listed path and no record path passes through it.
C4_FilteredRootStillStops ==
    claude_only =>
        /\ \A i \in RecordIdx : is_claude_project(Resolve(projects[i].path))
        /\ \A q \in FoundSet :
              ~is_claude_project(Resolve(q)) =>
                  /\ q \notin RecordPaths
                  /\ \A p \in listed \cup RecordPaths : ~IsProperPrefix(q, p)

\* C4 witness: with claude_only on the scan has ended, it found a generic
\* project root that holds a Claude project directory, and returned neither.
C4_Witness ==
    /\ scanPc = "done"
    /\ claude_only
    /\ \E q \in FoundSet :
          /\ ~is_claude_project(Resolve(q))
          /\ \E n \in EligibleEntries(q) :
                dirKind[ResolveFrom(Resolve(q), <<n>>)] = "claude"
    /\ projects = <<>>

\* The scan computed on the tree in which every directory whose listing
\* fails is an empty directory: the records, the canonical paths seen and
\* the traversal paths listed, added to those of acc.
RECURSIVE EmptiedScan(_, _, _, _, _)
RECURSIVE EmptiedEntries(_, _, _, _, _)
EmptiedScan(acc, path, node, name, depth) ==
    IF depth > max_depth \/ name \in SKIP_DIRS THEN acc
    ELSE LET here == [acc EXCEPT !.listed = @ \cup {path}] IN
         IF IterdirOutcome(node) # "ok" THEN here
         ELSE IF markers_found(node) # {}
         THEN IF node \in acc.seen THEN here
              ELSE IF claude_only /\ ~is_claude_project(node)
              THEN [here EXCEPT !.seen = @ \cup {node}]
              ELSE [here EXCEPT !.seen = @ \cup {node},
                                !.records = Append(@, [name          |-> name,
                                                       path          |-> path,
                                                       is_claude     |-> is_claude_project(node),
                                                       has_git       |-> ".git" \in FileNames(node),
                                                       markers_found |-> markers_found(node)])]
         ELSE EmptiedEntries(here, path, node, depth, 1)
EmptiedEntries(acc, path, node, depth, i) ==
    LET es == dirEntries[node] IN
    IF i > Len(es) THEN acc
    ELSE EmptiedEntries(IF es[i].name \in SKIP_DIRS THEN acc
                        ELSE EmptiedScan(acc, Append(path, es[i].name), es[i].node,
                                         es[i].name, depth + 1),
                        path, node, depth, i + 1)

\* The traversal paths whose listing failed.
FailedListings == {p \in listed : IterdirOutcome(Resolve(p)) # "ok"}

\* C27: a directory whose listing fails, with PermissionError or another
\* OSError, gives no record and no path listed beneath it, and the scan
\* goes on: at its end the records and the paths listed are those of the
\* scan of the same tree with that directory empty.
C27_FailedListingIsEmptyDir ==
    /\ \A p \in FailedListings :
          /\ p \notin RecordPaths
          /\ \A q \in listed \cup RecordPaths : ~IsProperPrefix(p, q)
    /\ (scanPc = "done" /\ rootState = "dir") =>
          LET emptied == EmptiedScan([records |-> <<>>, seen |-> {}, listed |-> {}],
                                     <<>>, Root, DirName(Root), 0)
          IN  /\ projects = emptied.records
              /\ listed = emptied.listed

\* C27 witness: the scan has ended; the listing of a directory that has
\* sub-directories failed, and an entry that follows it in its parent was
\* scanned and recorded.
C27_Witness ==
    /\ scanPc = "done"
    /\ \E p \in FailedListings :
          /\ p # <<>>
          /\ dirEntries[Resolve(p)] # <<>>
          /\ LET parent == SubSeq(p, 1, Len(p) - 1)
                 es == dirEntries[Resolve(parent)]
             IN  \E i, j \in 1..Len(es) :
                    /\ i < j
                    /\ es[i].name = p[Len(p)]
                    /\ Append(parent, es[j].name) \in RecordPaths

\* C28: at the end of the scan the failure count equals the number of
\* directories whose listing failed, with PermissionError or with another
\* OSError.
C28_EveryFailureCounted ==
    scanPc = "done" => permission_errors = Cardinality(FailedListings)

\* C30: every directory the scan lists that holds a Claude indicator is
\* detected as a project root, and its canonical path is in the result,
\* with claude_only on as well as off.
C30_TaggedDirIsProjectRoot ==
    scanPc = "done" =>
        \A p \in listed :
            (IterdirOutcome(Resolve(p)) = "ok" /\ is_claude_project(Resolve(p))) =>
                /\ p \in FoundSet
                /\ \E q \in RecordPaths : Resolve(q) = Resolve(p)

\* C31: no record of the result has a canonical path that lies strictly
\* beneath the canonical path of another record, by whatever traversal path
\* the two directories were reached.
C31_NoNestedRecords ==
    \A i, j \in RecordIdx :
        ~IsAncestor(Resolve(projects[i].path), Resolve(projects[j].path))

\* The calls of _scan in progress are nested no deeper than max_depth + 1:
\* the k-th call on the stack has depth k - 1, at most max_depth + 1.
RecursionBounded ==
    /\ Len(stack) <= max_depth + 2
    /\ \A k \in 1..Len(stack) : stack[k].depth = k - 1 /\ stack[k].depth <= max_depth + 1

\* C32: on every tree, symlinks that form cycles included, and for every
\* max_depth >= 0, the depth of the recursion of _scan never exceeds
\* max_depth + 1 and scan_directory eventually returns.
C32_ScanTerminates == []RecursionBounded /\ <>(scanPc = "done")

\* C32 witness: the scan has returned on a tree in which a symlink leads
\* from a directory to itself or to one of its ancestors, after following
\* the link twice in a row.
C32_Witness ==
    /\ scanPc = "done"
    /\ symlink # NoLink
    /\ symlink.to = symlink.from \/ IsAncestor(symlink.to, symlink.from)
    /\ \E p \in listed : \E k \in 1..(Len(p) - 1) : p[k] = LinkName /\ p[k + 1] = LinkName

\* What the caller gets from a scan of a directory that finds no project.
EmptyScanOutcome == [raised |-> "nothing", returned |-> <<>>]

\* C15: scan_directory called on a root that does not exist or is not a
\* directory lists no directory and ends in an outcome (InvalidRootError)
\* that differs from the outcome of a scan that found no project.
C15_BadRootIsAnError ==
    (scanPc = "done" /\ rootState # "dir") =>
        /\ listed = {}
        /\ ScanOutcome.raised = "InvalidRootError"
        /\ ScanOutcome # EmptyScanOutcome

(***************************************************************************)
(* Claims about the run, checked under SpecRun.                            *)
(***************************************************************************)
\* The repository names of the discovered projects, in order.
RepoNames == [i \in 1..Len(discovered) |-> sanitize_repo_name(discovered[i].name)]

Last(q) == q[Len(q)]

\* The calls of the current project from its first git push on.
PushTail ==
    LET pushAt == {i \in 1..Len(calls) : calls[i].op = "git push"}
    IN  IF pushAt = {} THEN <<>>
        ELSE SubSeq(calls, CHOOSE i \in pushAt : \A j \in pushAt : i <= j, Len(calls))

PushFailed == Call("git push", 1)
PushOk == Call("git push", 0)
Sleep(seconds) == Call("sleep", seconds)

\* Three failed attempts, each followed by its wait.
FailedTurns == <<PushFailed, Sleep(2), PushFailed, Sleep(4), PushFailed, Sleep(8)>>

\* git_init_and_push has returned for the project the calls belong to.
PushLoopLeft == mainPc # "push"

\* C5: in a dry run nothing is called for any project (no authentication, no
\* exists or create, no README write, no git command), no project directory
\* and no remote repository changes, and at the end every discovered project
\* is in the succeeded tally and none in failed or skipped.
C5_DryRunNoSideEffects ==
    dry_run =>
        /\ authCalls = 0
        /\ calls = <<>>
        /\ localDirs = initialDirs
        /\ results.failed = <<>>
        /\ results.skipped = <<>>
        /\ (mainPc = "exit" /\ discovered # <<>>) =>
              /\ exitCode = 0
              /\ results.success = RepoNames
              /\ outcomes = [i \in 1..Len(discovered) |-> "Succeeded"]

\* C5 witness: a dry run over two projects has ended.
C5_Witness ==
    /\ dry_run
    /\ mainPc = "exit"
    /\ Len(discovered) >= 2
    /\ Len(results.success) = Len(discovered)

\* C6: when every push attempt of a project has failed and the push loop is
\* left, exactly 4 attempts were made, with waits of 2, 4 and 8 seconds
\* between them and none after the 4th, and the project is tallied Failed.
C6_PushExhaustion ==
    /\ Len(SelectSeq(calls, LAMBDA c : c.op = "git push")) <= 4
    /\ (/\ PushLoopLeft
        /\ PushTail # <<>>
        /\ \A i \in 1..Len(PushTail) : PushTail[i] # PushOk)
       => /\ PushTail = Append(FailedTurns, PushFailed)
          /\ Last(outcomes) = "Failed"
          /\ Len(outcomes) = idx - 1
          /\ Last(results.failed) = RepoNames[idx - 1]

\* C6 witness: the four push attempts of a project have failed.
C6_Witness ==
    /\ PushLoopLeft
    /\ PushTail = Append(FailedTurns, PushFailed)
    /\ Last(outcomes) = "Failed"

\* C7: when a push attempt of a project succeeds, it is its k-th attempt for
\* some k in 1..4, the k-1 attempts before it failed and were followed by
\* their waits, nothing (no push, no wait) follows it, and the project is
\* tallied Succeeded.
C7_FirstSuccessEndsRetries ==
    (\E i \in 1..Len(PushTail) : PushTail[i] = PushOk)
    => /\ \E k \in 1..4 :
             PushTail = Append(SubSeq(FailedTurns, 1, 2 * (k - 1)), PushOk)
       /\ PushLoopLeft
       /\ Last(outcomes) = "Succeeded"
       /\ Len(outcomes) = idx - 1
       /\ Last(results.success) = RepoNames[idx - 1]

\* C7 witness: the third push attempt of a project has succeeded.
C7_Witness ==
    /\ PushTail = <<PushFailed, Sleep(2), PushFailed, Sleep(4), PushOk>>
    /\ Last(outcomes) = "Succeeded"

\* a is a prefix of b.
IsPrefix(a, b) == Len(a) <= Len(b) /\ SubSeq(b, 1, Len(a)) = a

\* The repository names of the first n projects whose outcome is o, in order.
RECURSIVE TalliedAs(_, _)
TalliedAs(o, n) ==
    IF n = 0 THEN <<>>
    ELSE TalliedAs(o, n - 1) \o (IF outcomes[n] = o THEN <<RepoNames[n]>> ELSE <<>>)

\* The loop over the projects has been entered.
LoopEntered == api # "unset"

\* The places of main() inside the loop over the projects.
LoopPlaces == {"loop", "exists", "create", "readme", "git", "push"}

\* The tally after the projects before the current one: one entry for each,
\* in scan order, under its outcome; main() is at a project or at the head of
\* the loop, and ends only after the last project.
C12_TallyInScanOrder ==
    /\ results.skipped = <<>>
    /\ LoopEntered =>
          /\ idx \in 1..(Len(discovered) + 1)
          /\ Len(outcomes) = idx - 1
          /\ results.success = TalliedAs("Succeeded", idx - 1)
          /\ results.failed = TalliedAs("Failed", idx - 1)
          /\ mainPc \in LoopPlaces \cup {"exit"}
          /\ mainPc \in LoopPlaces \ {"loop"} => idx <= Len(discovered)
          /\ mainPc = "exit" => idx = Len(discovered) + 1

\* No entry leaves the tally.
C12_TallyAppendOnly ==
    /\ IsPrefix(results.success, results'.success)
    /\ IsPrefix(results.skipped, results'.skipped)
    /\ IsPrefix(results.failed, results'.failed)

\* C12: whatever fails for single projects (exists, create, README write,
\* git, the four pushes), the projects are processed in scan order, a failed
\* project is followed by the next one, the run ends only after the last
\* project with exactly one tally entry per discovered project, and no entry
\* is ever removed from the tally.
C12_FailuresStayPerProject ==
    []C12_TallyInScanOrder /\ [][C12_TallyAppendOnly]_vars

\* C12 witness: a run over two projects has ended, the first Failed and the
\* second Succeeded.
C12_Witness ==
    /\ mainPc = "exit"
    /\ Len(discovered) = 2
    /\ outcomes = <<"Failed", "Succeeded">>
    /\ results.failed = <<RepoNames[1]>>
    /\ results.success = <<RepoNames[2]>>

\* C13: in a run that is no dry run, with the credential missing or rejected
\* by the host, main() never enters the loop over the projects: no exists or
\* create call, no README write and no git call is made, no project
\* directory changes, the tally stays empty, and once GitHubAPI(token) has
\* been called the run has ended with exit code 1.
C13_AuthFailureAbortsFirst ==
    (~dry_run /\ tokenState # "ok") =>
        /\ mainPc \notin LoopPlaces
        /\ calls = <<>>
        /\ outcomes = <<>>
        /\ localDirs = initialDirs
        /\ results = [success |-> <<>>, skipped |-> <<>>, failed |-> <<>>]
        /\ authCalls > 0 => mainPc = "exit" /\ exitCode = 1

\* C13 witness: a run over two projects with a rejected credential has
\* ended at the call of GitHubAPI(token).
C13_Witness ==
    /\ ~dry_run
    /\ tokenState = "rejected"
    /\ Len(discovered) = 2
    /\ authCalls = 1
    /\ mainPc = "exit"
    /\ exitCode = 1

\* A fatal setup error has happened: the root path is no directory, or
\* GitHubAPI(token) was called without a valid credential.
FatalSetupError ==
    \/ pathState # "dir"
    \/ authCalls > 0 /\ tokenState # "ok"

\* C14: when main() has ended, its exit code is 1 exactly when the root path
\* does not exist or is not a directory, or the credential of a run that is
\* no dry run is missing or rejected, and 0 in every other case (a completed
\* run, an abort at the prompt, a scan that finds nothing).
C14_ExitCodeOneExactlyOnFatal ==
    mainPc = "exit" =>
        /\ exitCode \in {0, 1}
        /\ exitCode = 1 <=> FatalSetupError

\* C16: any two distinct records of one scan target distinct repository
\* names, and the remote URLs that two published projects were pushed to are
\* distinct.
C16_OwnRepositoryEach ==
    \A i, j \in 1..Len(discovered) :
        i # j =>
            /\ RepoNames[i] # RepoNames[j]
            /\ (/\ ~dry_run
                /\ i < idx /\ j < idx
                /\ outcomes[i] = "Succeeded" /\ outcomes[j] = "Succeeded")
               => localDirs[i].remote # localDirs[j].remote

(***************************************************************************)
(* Claims about successive runs, checked under SpecRerun.                  *)
(***************************************************************************)
\* The project that the calls recorded belong to.
CallsOf == IF mainPc \in {"loop", "exit"} THEN idx - 1 ELSE idx

\* An earlier run created the repository of project i and tallied the
\* project Failed.
CreatedThenFailed(i) ==
    \E k \in 1..Len(createLog) :
        /\ createLog[k].run < runNo
        /\ createLog[k].idx = i
        /\ createLog[k].created
        /\ earlier[createLog[k].run][i] = "Failed"

\* The creations requested under repository name n, in order.
CreationsOf(n) == SelectSeq(createLog, LAMBDA e : e.name = n)

RECURSIVE CountHeadings(_)
CountHeadings(content) ==
    IF content = <<>> THEN 0
    ELSE (IF Head(content) = "H" THEN 1 ELSE 0) + CountHeadings(Tail(content))

StampIdx == 1..Len(rdHistory)

\* C8 as stated: after every run n >= 1 of ensure_readme, whatever the
\* initial README, the README holds the section heading exactly once.
C8_HeadingOnceAfterEveryRun ==
    \A n \in StampIdx : CountHeadings(rdHistory[n]) = 1

\* C8 as amended: after every run n >= 1 the README holds the section
\* heading exactly once, except after the first run on a directory without a
\* README, where it holds the heading once more for each time the project
\* description holds it; from the second run on it holds it exactly once.
C8_HeadingOnceAmended ==
    \A n \in StampIdx :
        IF n = 1 /\ rdInitial = NoFile
        THEN CountHeadings(rdHistory[n]) = 1 + CountHeadings(rdDescription)
        ELSE CountHeadings(rdHistory[n]) = 1

\* C8 witness: ensure_readme has run twice on a README that held the heading
\* twice.
C8_Witness ==
    /\ Len(rdHistory) >= 2
    /\ rdInitial # NoFile
    /\ CountHeadings(rdInitial) >= 2

\* C9: the content after the second run of ensure_readme equals the content
\* after the first.
C9_SecondRunChangesNothing ==
    Len(rdHistory) >= 2 => rdHistory[2] = rdHistory[1]

\* The content of a README after the attribution section: from the heading
\* of the next section on, none when the section is the last one.
AfterSection(content) ==
    LET start == Len(BeforeFirstHeading(content)) + 1
        next  == {k \in (start + 1)..Len(content) : content[k] = "h"}
    IN  IF next = {} THEN <<>>
        ELSE SubSeq(content, CHOOSE k \in next : \A j \in next : k <= j, Len(content))

\* The content of a README before the attribution section, white space at
\* its end aside: the section starts at the --- line that precedes its
\* heading when there is one, at the heading otherwise.
BeforeSection(content) ==
    LET b == RStrip(BeforeFirstHeading(content), Whitespace)
    IN  IF b # <<>> /\ b[Len(b)] = "s"
        THEN RStrip(SubSeq(b, 1, Len(b) - 1), Whitespace)
        ELSE b

\* The content before stamp n.
BeforeStamp(n) == IF n = 1 THEN rdInitial ELSE rdHistory[n - 1]

\* C25: when ensure_readme runs on a README that holds the attribution
\* section, the content before the section and the content after the
\* section are the same after the run as before.
C25_OutsideSectionKept ==
    \A n \in StampIdx :
        (BeforeStamp(n) # NoFile /\ HasSection(BeforeStamp(n))) =>
            /\ BeforeSection(rdHistory[n]) = BeforeSection(BeforeStamp(n))
            /\ AfterSection(rdHistory[n]) = AfterSection(BeforeStamp(n))

(***************************************************************************)
(* Claims about sanitize_repo_name, checked under SpecSan.                 *)
(***************************************************************************)
\* The characters of a result: every character the model reads or writes.
ResultChars == InputChars \cup Letters \cup Digits

\* A character that sanitize_repo_name drops, or strips at the ends (as
\* itself or as the hyphen it is mapped to).
DroppedOrStripped(c) == ~IsAlnum(c) /\ c # "_"

\* C10: sanitize_repo_name returns a string for every input, applying it to
\* its result returns the result, and a string of dropped or stripped
\* characters only (the empty string too) gives the fallback identifier.
C10_SanitizeIdempotent ==
    /\ sanPc # "start" =>
          /\ sanOutput \in Seq(ResultChars)
          /\ (\A i \in 1..Len(sanInput) : DroppedOrStripped(sanInput[i]))
                 => sanOutput = Fallback
    /\ sanPc = "twice" => sanAgain = sanOutput

\* C10 witness: sanitize_repo_name applied twice to a string that it changes
\* by mapping, dropping, stripping and collapsing.
C10_Witness ==
    /\ sanPc = "twice"
    /\ sanInput = <<".", "a", " ", "/">>
    /\ sanOutput = <<"a">>

\* The characters of w other than hyphens, in order.
NonHyphens(w) == SelectSeq(w, LAMBDA c : c # "-")

\* The characters sanitize_repo_name keeps as they are.
IsKept(c) == IsAlnum(c) \/ c \in {"-", "_", "."}

\* C11: the result of sanitize_repo_name is non-empty, made of alphanumerics,
\* hyphens, underscores and dots only, neither starts nor ends with a hyphen
\* or a dot, and holds no two hyphens in a row; between two alphanumerics a
\* space or a path separator becomes a hyphen and any other character that
\* is not kept is dropped, the kept characters staying in order;
\* "My Cool App!!" gives "My-Cool-App".
C11_SanitizedShape ==
    sanPc # "start" =>
        /\ sanOutput # <<>>
        /\ \A i \in 1..Len(sanOutput) : IsKept(sanOutput[i])
        /\ sanOutput[1] \notin {"-", "."}
        /\ sanOutput[Len(sanOutput)] \notin {"-", "."}
        /\ ~HasDoubleHyphen(sanOutput)
        /\ (sanInput # <<>> /\ IsAlnum(sanInput[1]) /\ IsAlnum(sanInput[Len(sanInput)])) =>
              /\ NonHyphens(sanOutput) = NonHyphens(SelectSeq(sanInput, IsKept))
              /\ Len(sanInput) = 3 =>
                    sanOutput = IF sanInput[2] \in {" ", "/", "\\"}
                                THEN <<sanInput[1], "-", sanInput[3]>>
                                ELSE IF IsKept(sanInput[2]) THEN sanInput
                                ELSE <<sanInput[1], sanInput[3]>>
        /\ sanInput = MyCoolApp =>
              sanOutput = <<"M", "y", "-", "C", "o", "o", "l", "-", "A", "p", "p">>

\* C11 witness: "My Cool App!!" has been sanitized to "My-Cool-App".
C11_Witness ==
    /\ sanPc = "once"
    /\ sanInput = MyCoolApp
    /\ sanOutput = <<"M", "y", "-", "C", "o", "o", "l", "-", "A", "p", "p">>

(***************************************************************************)
(* Claims about the classification, checked under SpecClassify.            *)
(***************************************************************************)
\* The rules of checks that the files of the directory match.
MatchingRules == {k \in 1..Len(checks) : RuleMatches(checks[k][1], dirFiles)}

\* C18: detect_project_type returns the tag of the first rule of the list
\* that the directory matches, whatever marker files are present together
\* (package.json with tsconfig.json gives the tag of package.json), and
\* Unknown exactly when no rule matches.
C18_FirstRuleWins ==
    clsPc # "start" =>
        /\ MatchingRules # {} =>
              clsType = checks[CHOOSE k \in MatchingRules : \A j \in MatchingRules : k <= j][2]
        /\ clsType = "Unknown" <=> MatchingRules = {}
        /\ {"package.json", "tsconfig.json"} \subseteq dirFiles => clsType = "Node.js/JavaScript"

\* C18 witness: a directory with package.json and tsconfig.json has been
\* typed by the rule of package.json.
C18_Witness ==
    /\ clsPc = "typed"
    /\ dirFiles = {"package.json", "tsconfig.json"}
    /\ clsType = "Node.js/JavaScript"

\* What package.json yields: its description field, when it is an object
\* that holds a non-empty one.
ManifestYield ==
    IF pkgJson = "description" THEN Described("package.json", 0, 40) ELSE EmptyDescription

\* What pyproject.toml yields: the text of its first description line, when
\* no line before it starts with description other than with an empty text.
BuildConfigYield ==
    IF pyproject \in {NoLines, Unreadable} THEN EmptyDescription
    ELSE LET found == {k \in 1..Len(pyproject) :
                          /\ pyproject[k] = "description = text"
                          /\ \A j \in 1..(k - 1) :
                                pyproject[j] \in {"other", "description = empty"}}
         IN  IF found = {} THEN EmptyDescription
             ELSE Described("pyproject.toml", CHOOSE k \in found : TRUE, 40)

\* The description lines (README file i, line k) among the lines lo..hi of
\* the README files that can be read.
ReadmeHits(lo, hi) ==
    {h \in (1..Len(ReadmeNames)) \X (lo..hi) :
        LET lines == readmeFiles[ReadmeNames[h[1]]]
        IN  /\ lines \notin {NoLines, Unreadable}
            /\ h[2] <= Len(lines)
            /\ lines[h[2]] \notin {"blank", "heading"}}

\* What the README files yield from their lines lo..hi: the first such line
\* of the first file that has one, cut to 200 characters.
ReadmeYield(lo, hi) ==
    IF ReadmeHits(lo, hi) = {} THEN EmptyDescription
    ELSE LET h == CHOOSE x \in ReadmeHits(lo, hi) :
                      \A y \in ReadmeHits(lo, hi) :
                          x[1] < y[1] \/ (x[1] = y[1] /\ x[2] <= y[2])
             kind == readmeFiles[ReadmeNames[h[1]]][h[2]]
         IN  Described(ReadmeNames[h[1]], h[2], IF kind = "long text" THEN 200 ELSE 16)

\* C19: get_project_description returns the first non-empty result among
\* the description of package.json, the description line of pyproject.toml
\* and the README line, in this order; the empty string exactly when the
\* three yield nothing; and no exception of a source (a file that cannot be
\* read or parsed) reaches the caller: the later sources are still tried.
C19_FirstSourceWins ==
    clsPc = "done" =>
        /\ clsDescription # Raises
        /\ clsDescription =
              IF ManifestYield # EmptyDescription THEN ManifestYield
              ELSE IF BuildConfigYield # EmptyDescription THEN BuildConfigYield
              ELSE ReadmeYield(2, 6)
        /\ clsDescription = EmptyDescription <=>
              /\ ManifestYield = EmptyDescription
              /\ BuildConfigYield = EmptyDescription
              /\ ReadmeYield(2, 6) = EmptyDescription

\* C19 witness: package.json cannot be parsed, the description line of
\* pyproject.toml holds no "=", and the description is read in README.md.
C19_Witness ==
    /\ clsPc = "done"
    /\ pkgJson = "unreadable"
    /\ pyproject = <<"description, no =", "description = text">>
    /\ clsDescription = Described("README.md", 2, 16)

\* Neither package.json nor pyproject.toml yields a description, and a
\* README exists.
OnlyReadmeYields ==
    /\ ManifestYield = EmptyDescription
    /\ BuildConfigYield = EmptyDescription
    /\ \E i \in 1..Len(ReadmeNames) : readmeFiles[ReadmeNames[i]] \notin {NoLines, Unreadable}

\* C20 as stated: the description is then the first line among the first
\* lines of the README (the first line included) that is neither empty nor
\* a heading, cut to 200 characters.
C20_FirstLinesOfReadme ==
    (clsPc = "done" /\ OnlyReadmeYields) => clsDescription = ReadmeYield(1, 6)

\* C20 as amended: the description is then the first line among the lines
\* 2 to 6 of the README that is neither empty nor a heading, cut to 200
\* characters; the first line is never used, and a README without such a
\* line leaves the description to the next README file, or empty.
C20_SecondToSixthLine ==
    (clsPc = "done" /\ OnlyReadmeYields) =>
        /\ clsDescription = ReadmeYield(2, 6)
        /\ clsDescription.len <= 200
        /\ clsDescription.line \in {0} \cup (2..6)

\* C20 witness: a README.md whose first line is a text and whose third line
\* is a text of more than 200 characters has given the third line, cut.
C20_Witness ==
    /\ clsPc = "done"
    /\ OnlyReadmeYields
    /\ Len(readmeFiles["README.md"]) >= 3
    /\ readmeFiles["README.md"][1] = "short text"
    /\ readmeFiles["README.md"][2] = "blank"
    /\ readmeFiles["README.md"][3] = "long text"
    /\ clsDescription = Described("README.md", 3, 200)

(***************************************************************************)
(* Claims about the order of the steps of one project.                     *)
(***************************************************************************)
\* The place of an operation in the order of one turn of the loop.
StepRank(op) ==
    CASE op = "exists" -> 1
      [] op = "create" -> 2
      [] op = "write README" -> 3
      [] op \in {"git init", "git branch --show-current", "git checkout -b"} -> 4
      [] op = "git add -A" -> 5
      [] op = "git status" -> 6
      [] op = "git commit" -> 7
      [] op = "git remote get-url" -> 8
      [] op \in {"git remote add", "git remote set-url"} -> 9
      [] op \in {"git push", "sleep"} -> 10

\* repo_exists returned False: the check reported the repository absent.
ReportedAbsent == calls # <<>> /\ Has404(calls[1].arg)
ReportedPresent == calls # <<>> /\ calls[1].arg = "200"

\* C21: in a real run the operations of one project come in the order
\* existence check, creation, README, git commands up to the remote, push.
\* The existence check is the first and only one; the creation is requested
\* exactly when the check reported the repository absent and never when it
\* reported it present; the README and the git commands come only after
\* the check has returned and, where a creation was needed, after the
\* creation has returned with the repository on the host.
C21_StepsInOrder ==
    /\ \A i \in 1..(Len(calls) - 1) :
          StepRank(calls[i].op) <= StepRank(calls[i + 1].op)
    /\ calls # <<>> => calls[1].op = "exists"
    /\ \A i \in 2..Len(calls) : calls[i].op # "exists"
    /\ \A i \in 1..Len(calls) : calls[i].op = "create" => i = 2 /\ ReportedAbsent
    /\ ReportedPresent => \A i \in 1..Len(calls) : calls[i].op # "create"
    /\ (mainPc \in {"readme", "git", "push"} \/ Len(calls) >= 2) =>
          /\ ReportedAbsent \/ ReportedPresent
          /\ ReportedAbsent <=> (Len(calls) >= 2 /\ calls[2].op = "create")
    /\ mainPc = "create" => ReportedAbsent /\ Len(calls) = 1
    /\ (\E i \in 1..Len(calls) : calls[i].op = "write README") =>
          \/ ReportedPresent
          \/ /\ ReportedAbsent /\ calls[2].op = "create"
             /\ RepoNames[CallsOf] \in hostRepos
    /\ \A i \in 1..Len(calls) : StepRank(calls[i].op) >= 4 =>
          \E j \in 1..(i - 1) : calls[j].op = "write README"

\* C21 witness: a project whose repository was absent has gone through the
\* check, the creation, the README, a commit, the remote and a push.
C21_Witness ==
    /\ Len(calls) >= 6
    /\ calls[1] = Call("exists", "404")
    /\ calls[2].op = "create"
    /\ calls[3].op = "write README"
    /\ \E i, j, k \in 4..Len(calls) :
          /\ i < j /\ j < k
          /\ calls[i].op = "git commit"
          /\ calls[j].op = "git remote add"
          /\ calls[k] = Call("git push", 0)

(***************************************************************************)
(* Claims about the failures of the host.                                  *)
(***************************************************************************)
\* The existence check of the project met an error of the host that is not
\* the answer "not found".
ExistsHitHostError == calls # <<>> /\ calls[1].arg \in {"error", "error with 404 in its text"}

\* The creation was requested for the project and raised.
CreateFailed ==
    /\ Len(calls) >= 2 /\ calls[2].op = "create"
    /\ createLog # <<>>
    /\ Last(createLog).run = runNo /\ Last(createLog).idx = CallsOf
    /\ ~Last(createLog).created

\* C22: when the existence check of a project fails with a host error other
\* than not-found, or its creation request fails, no README is written and
\* no git command is run for it, its directory is as it was, its outcome
\* is Failed and the loop goes on to the next project.
C22_HostErrorFailsProject ==
    (ExistsHitHostError \/ CreateFailed) =>
        /\ \A i \in 1..Len(calls) : StepRank(calls[i].op) <= 2
        /\ localDirs[CallsOf] = initialDirs[CallsOf]
        /\ mainPc \in {"exists", "create", "loop", "exit"}
        /\ mainPc \in {"loop", "exit"} =>
              /\ outcomes[CallsOf] = "Failed"
              /\ idx = CallsOf + 1

(***************************************************************************)
(* Claims about git_init_and_push.                                         *)
(***************************************************************************)
\* A git command other than push has failed for the project.
GitCommandFailed ==
    \E i \in 1..Len(calls) : calls[i].op \in FailableCommands /\ calls[i].arg # 0

\* C23: a project for which a git command other than push has failed is
\* tallied Failed, and no such command is run a second time.
C23_GitFailureFailsProject ==
    /\ (GitCommandFailed /\ mainPc \in {"loop", "exit"}) => outcomes[CallsOf] = "Failed"
    /\ \A op \in FailableCommands :
          Len(SelectSeq(calls, LAMBDA c : c.op = op)) <= 1

\* The places in the log of the project of the commits and of git status.
CommitAt == {i \in 1..Len(calls) : calls[i].op = "git commit"}
StatusAt == {i \in 1..Len(calls) : calls[i].op = "git status"}

\* C24: git commit is issued only right after git status, run after
\* git add -A, has printed pending changes; when it printed nothing the next
\* command reads the remote, no commit is in the log and the push follows.
C24_NoEmptyCommit ==
    /\ \A i \in CommitAt :
          /\ i >= 3
          /\ calls[i - 1].op = "git status" /\ calls[i - 1].arg > 0
          /\ calls[i - 2].op = "git add -A"
    /\ \A i \in StatusAt :
          /\ calls[i - 1].op = "git add -A"
          /\ i < Len(calls)
          /\ calls[i].arg = 0 =>
                /\ calls[i + 1].op = "git remote get-url"
                /\ CommitAt = {}
                /\ \/ mainPc = "push"
                   \/ \E k \in (i + 1)..Len(calls) : calls[k].op = "git push"
          /\ calls[i].arg > 0 => calls[i + 1].op = "git commit"

\* C24 witness: with a clean tree the project was pushed without a commit.
C24_Witness ==
    /\ \E i \in StatusAt : calls[i].arg = 0
    /\ CommitAt = {}
    /\ Last(calls) = PushOk
    /\ mainPc = "loop" /\ outcomes[CallsOf] = "Succeeded"

\* C26: of the files of a project directory, a run changes only README.md
\* and what lies under .git: any other file, such as .gitignore, exists
\* after the run exactly if it existed before.
C26_OnlyReadmeAndGitChange ==
    \A i \in 1..Len(localDirs) : localDirs[i].gitignore <=> initialDirs[i].gitignore

(***************************************************************************)
(* Claims about the confirmation prompt.                                   *)
(***************************************************************************)
\* Nothing of the publishing has happened: no authentication, no call to the
\* host, no README written, no git command.
NothingPublished ==
    /\ authCalls = 0
    /\ api = "unset"
    /\ calls = <<>>
    /\ createLog = <<>>
    /\ localDirs = initialDirs
    /\ outcomes = <<>>

\* C29: in a run without --yes and without --dry-run nothing of the
\* publishing happens before the user has answered the prompt, and nothing
\* ever happens when the answer is neither y nor yes: the run then ends with
\* exit code 0.  The prompt is shown at most once, and never with --yes or
\* --dry-run.
C29_ConfirmationGate ==
    /\ Len(prompts) <= 1
    /\ (yes \/ dry_run) => prompts = <<>>
    /\ (~yes /\ ~dry_run /\ prompts = <<>>) =>
          /\ NothingPublished
          /\ mainPc \in {"start", "confirm", "exit"}
    /\ (prompts # <<>> /\ prompts[1] \notin {"y", "yes"}) =>
          /\ NothingPublished
          /\ mainPc = "exit" /\ exitCode = 0
    /\ (~yes /\ ~dry_run /\ mainPc \in {"connect"} \cup LoopPlaces) =>
          prompts \in {<<"y">>, <<"yes">>}

\* C29 witness: the user has declined the upload of a discovered project
\* and the run has ended.
C29_Witness ==
    /\ discovered # <<>>
    /\ prompts = <<"n">>
    /\ mainPc = "exit"

=============================================================================
